---- MODULE Spec2Model ----
(***************************************************************************)
(* ARAnalyzer (src/ar_analysis.py): the run_analysis pipeline              *)
(*   load_data -> calculate_days_past_due -> categorize_invoices           *)
(*             -> calculate_ar_metrics -> create_excel_report              *)
(* over one in-memory DataFrame.                                           *)
(*                                                                         *)
(* Representation.                                                         *)
(*  - A cell that may be missing (NaT, NaN) is a sequence of length 0 or   *)
(*    1: <<>> is the missing value, <<v>> holds v.                         *)
(*  - A Timestamp is an integer count of ticks, TicksPerDay ticks to the   *)
(*    calendar day; a calendar date (datetime.date) is an integer day.     *)
(*  - An amount is an integer number of thousandths of the currency unit,  *)
(*    so that the two-decimal rounding of the aging table is observable.   *)
(*  - A row is a function from column names to cells; a column that has    *)
(*    not been created yet is not in the row's domain.                     *)
(*  - The columns Name and Invoice Date are never read by the pipeline     *)
(*    up to calculate_ar_metrics and are left out.                         *)
(***************************************************************************)
EXTENDS Integers, Sequences, FiniteSets, TLC

VARIABLES
    pc,                      \* position of run_analysis
    wire_fee_threshold,      \* self.wire_fee_threshold
    india_withholding_docs,  \* self.india_withholding_docs (a list of strings)
    exclusion_notes,         \* self.exclusion_notes
    df,                      \* self.df, a sequence of rows
    today,                   \* the date datetime.now().date() returns during the run
    metrics,                 \* self.metrics: <<>> until assigned, then <<record>>
    collectible_ar,          \* the local frame collectible_ar of calculate_ar_metrics
    aging_summary,           \* self.aging_summary: <<>> until assigned, then <<table>>
    error                    \* the exception that ended the run, "" when none

vars == <<pc, wire_fee_threshold, india_withholding_docs, exclusion_notes, df,
          today, metrics, collectible_ar, aging_summary, error>>

-----------------------------------------------------------------------------
(* Bounds of the model. *)

MaxRecords == 2        \* rows of a dataset of the classification and aging slices
MaxDateRecords == 1    \* rows of a dataset of the date slice
MaxBandRecords == 1    \* rows of a dataset of the band slice
MaxDay == 2            \* calendar days 0..MaxDay of the date slice
MaxDaysPastDue == 95   \* days past due 0..MaxDaysPastDue of the band slice
TicksPerDay == 2       \* resolution of a Timestamp within a day

-----------------------------------------------------------------------------
(* Missing values and Python's comparisons on them. *)

NaN == <<>>
NaT == <<>>
Some(v) == <<v>>

\* pd.notna(x)
notna(x) == x # <<>>

\* x > y and x <= y on floats: every comparison with nan is False
PyGt(x, y) == notna(x) /\ notna(y) /\ x[1] > y[1]
PyLe(x, y) == notna(x) /\ notna(y) /\ x[1] <= y[1]
PyEq(x, y) == notna(x) /\ notna(y) /\ x[1] = y[1]

PyMaxSwapped(a, b) == IF PyGt(a, b) THEN a ELSE b
\* max(a, b): the first argument is kept unless the second compares greater
PyMax(a, b) == IF PyGt(b, a) THEN b ELSE a

\* x or d: d replaces x only when x is falsy; nan is truthy, 0 is falsy
PyOr(x, d) == IF notna(x) /\ x[1] = 0 THEN d ELSE x

-----------------------------------------------------------------------------
(* Document numbers and str(). *)

DigitChar == <<"0", "1", "2", "3", "4", "5", "6", "7", "8", "9">>

RECURSIVE DecimalDigits(_)
DecimalDigits(n) ==
    IF n < 10 THEN DigitChar[n + 1]
    ELSE DecimalDigits(n \div 10) \o DigitChar[(n % 10) + 1]

\* A Document Number cell: the text of a number (kind "str"), an integer
\* (kind "int") or an integral float (kind "float", the dtype of a numeric
\* column that has a blank cell).
Doc(kind, val) == [kind |-> kind, val |-> val]

\* str(row['Document Number'])
PyStr(d) ==
    IF d.kind = "float" THEN DecimalDigits(d.val) \o ".0" ELSE DecimalDigits(d.val)

\* doc_num in self.india_withholding_docs
InList(x, list) == \E i \in 1..Len(list) : list[i] = x

\* Series.str.contains(pat) on one string
Contains(s, pat) ==
    \E i \in 1..(Len(s) - Len(pat) + 1) : SubSeq(s, i, i + Len(pat) - 1) = pat

-----------------------------------------------------------------------------
(* Dates. *)

\* Timestamp.date()
DateOf(ts) == ts \div TicksPerDay

\* (a - b).days for Timestamps a, b: NaT absorbs, and NaT.days is nan
TimedeltaDays(a, b) ==
    IF notna(a) /\ notna(b) THEN Some((a[1] - b[1]) \div TicksPerDay) ELSE NaN

days_past_due_calc_today(row, now) ==
    LET due_date == row["Due Date"]
        due_date_only == IF notna(due_date) THEN DateOf(due_date[1]) ELSE now
    IN  PyMax(Some(0), Some(now - due_date_only))

days_past_due_calc(row, now) ==
    LET due_date == row["Due Date"]
        payment_date == row["Payment Date"]
    IN  IF notna(payment_date)
        THEN PyMax(Some(0), TimedeltaDays(payment_date, due_date))
        ELSE LET due_date_only == IF notna(due_date) THEN DateOf(due_date[1]) ELSE now
             IN  PyMax(Some(0), Some(now - due_date_only))

-----------------------------------------------------------------------------
(* Rows and frames. *)

\* df.at[idx, col] = v on one row; also creates the column
SetCol(row, col, v) == (col :> v) @@ row

RawRow(doc, amount, due, pay) ==
    [c \in {"Document Number", "Amount", "Due Date", "Payment Date"} |->
        CASE c = "Document Number" -> doc
          [] c = "Amount" -> amount
          [] c = "Due Date" -> due
          [] c = "Payment Date" -> pay]

\* frame[frame[col] == val]: the rows whose column col holds val, in order
RECURSIVE WhereEq(_, _, _)
WhereEq(frame, col, val) ==
    IF frame = <<>> THEN <<>>
    ELSE LET rest == WhereEq(Tail(frame), col, val)
         IN  IF Head(frame)[col] = val THEN <<Head(frame)>> \o rest ELSE rest

\* frame[frame[col].str.contains(pat, na=False)]
RECURSIVE WhereContains(_, _, _)
WhereContains(frame, col, pat) ==
    IF frame = <<>> THEN <<>>
    ELSE LET rest == WhereContains(Tail(frame), col, pat)
         IN  IF Contains(Head(frame)[col], pat) THEN <<Head(frame)>> \o rest ELSE rest

\* Series.sum() of the Amount column: missing values are skipped, empty sum is 0
RECURSIVE SumAmount(_)
SumAmount(frame) ==
    IF frame = <<>> THEN 0
    ELSE (IF notna(Head(frame)["Amount"]) THEN Head(frame)["Amount"][1] ELSE 0)
         + SumAmount(Tail(frame))

\* groupby(...)['Amount'].count(): the rows whose Amount is not missing
RECURSIVE CountAmount(_)
CountAmount(frame) ==
    IF frame = <<>> THEN 0
    ELSE (IF notna(Head(frame)["Amount"]) THEN 1 ELSE 0) + CountAmount(Tail(frame))

\* Series.max() of the Days Past Due column of a non-empty frame (missing skipped)
RECURSIVE MaxDays(_)
MaxDays(frame) ==
    IF frame = <<>> THEN NaN
    ELSE LET h == Head(frame)["Days Past Due"]
             m == MaxDays(Tail(frame))
         IN  IF ~notna(h) THEN m
             ELSE IF ~notna(m) THEN h
             ELSE IF h[1] >= m[1] THEN h ELSE m

-----------------------------------------------------------------------------
(* categorize_invoices, one row of the loop. *)

CategorizeRowNoElse(row, threshold, docs, notes) ==
    LET doc_num == PyStr(row["Document Number"])
        amount == PyOr(row["Amount"], Some(0))
        payment_date == row["Payment Date"]
    IN  IF notna(payment_date)
        THEN SetCol(row, "Category", "Paid")
        ELSE IF InList(doc_num, docs)
        THEN SetCol(SetCol(row, "Category", "Excluded"),
                    "Exclusion Reason", notes.india_withholding)
        ELSE IF PyLe(amount, Some(threshold))
        THEN SetCol(SetCol(row, "Category", "Excluded"),
                    "Exclusion Reason", notes.wire_fee)
        ELSE row

CategorizeRowReasonOnPaid(row, threshold, docs, notes) ==
    LET doc_num == PyStr(row["Document Number"])
        amount == PyOr(row["Amount"], Some(0))
        payment_date == row["Payment Date"]
    IN  IF InList(doc_num, docs)
        THEN SetCol(SetCol(row, "Category", IF notna(payment_date) THEN "Paid" ELSE "Excluded"),
                    "Exclusion Reason", notes.india_withholding)
        ELSE IF notna(payment_date)
        THEN SetCol(row, "Category", "Paid")
        ELSE IF PyLe(amount, Some(threshold))
        THEN SetCol(SetCol(row, "Category", "Excluded"),
                    "Exclusion Reason", notes.wire_fee)
        ELSE SetCol(row, "Category", "Collectible AR")

CategorizeRowWithholdingFirst(row, threshold, docs, notes) ==
    LET doc_num == PyStr(row["Document Number"])
        amount == PyOr(row["Amount"], Some(0))
        payment_date == row["Payment Date"]
    IN  IF InList(doc_num, docs)
        THEN SetCol(SetCol(row, "Category", "Excluded"),
                    "Exclusion Reason", notes.india_withholding)
        ELSE IF notna(payment_date)
        THEN SetCol(row, "Category", "Paid")
        ELSE IF PyLe(amount, Some(threshold))
        THEN SetCol(SetCol(row, "Category", "Excluded"),
                    "Exclusion Reason", notes.wire_fee)
        ELSE SetCol(row, "Category", "Collectible AR")

CategorizeRowWireFeeFirst(row, threshold, docs, notes) ==
    LET doc_num == PyStr(row["Document Number"])
        amount == PyOr(row["Amount"], Some(0))
        payment_date == row["Payment Date"]
    IN  IF notna(payment_date)
        THEN SetCol(row, "Category", "Paid")
        ELSE IF PyLe(amount, Some(threshold))
        THEN SetCol(SetCol(row, "Category", "Excluded"),
                    "Exclusion Reason", notes.wire_fee)
        ELSE IF InList(doc_num, docs)
        THEN SetCol(SetCol(row, "Category", "Excluded"),
                    "Exclusion Reason", notes.india_withholding)
        ELSE SetCol(row, "Category", "Collectible AR")

CategorizeRowStrictThreshold(row, threshold, docs, notes) ==
    LET doc_num == PyStr(row["Document Number"])
        amount == PyOr(row["Amount"], Some(0))
        payment_date == row["Payment Date"]
    IN  IF notna(payment_date)
        THEN SetCol(row, "Category", "Paid")
        ELSE IF InList(doc_num, docs)
        THEN SetCol(SetCol(row, "Category", "Excluded"),
                    "Exclusion Reason", notes.india_withholding)
        ELSE IF notna(amount) /\ amount[1] < threshold
        THEN SetCol(SetCol(row, "Category", "Excluded"),
                    "Exclusion Reason", notes.wire_fee)
        ELSE SetCol(row, "Category", "Collectible AR")

\* The body of the loop over self.df.iterrows(): the row already carries the
\* defaults Category = 'Unknown' and Exclusion Reason = ''.
CategorizeRow(row, threshold, docs, notes) ==
    LET doc_num == PyStr(row["Document Number"])
        amount == PyOr(row["Amount"], Some(0))
        payment_date == row["Payment Date"]
    IN  IF notna(payment_date)
        THEN SetCol(row, "Category", "Paid")
        ELSE IF InList(doc_num, docs)
        THEN SetCol(SetCol(row, "Category", "Excluded"),
                    "Exclusion Reason", notes.india_withholding)
        ELSE IF PyLe(amount, Some(threshold))
        THEN SetCol(SetCol(row, "Category", "Excluded"),
                    "Exclusion Reason", notes.wire_fee)
        ELSE SetCol(row, "Category", "Collectible AR")

-----------------------------------------------------------------------------
(* calculate_ar_metrics: the aging table. *)

categorize_aging_strict(days_past_due) ==
    IF PyEq(days_past_due, Some(0)) THEN "On Time"
    ELSE IF notna(days_past_due) /\ days_past_due[1] < 30 THEN "1-30 Days Past Due"
    ELSE IF notna(days_past_due) /\ days_past_due[1] < 60 THEN "31-60 Days Past Due"
    ELSE IF notna(days_past_due) /\ days_past_due[1] < 90 THEN "61-90 Days Past Due"
    ELSE "Over 90 Days Past Due"

categorize_aging(days_past_due) ==
    IF PyEq(days_past_due, Some(0)) THEN "On Time"
    ELSE IF PyLe(days_past_due, Some(30)) THEN "1-30 Days Past Due"
    ELSE IF PyLe(days_past_due, Some(60)) THEN "31-60 Days Past Due"
    ELSE IF PyLe(days_past_due, Some(90)) THEN "61-90 Days Past Due"
    ELSE "Over 90 Days Past Due"

aging_order ==
    <<"On Time", "1-30 Days Past Due", "31-60 Days Past Due",
      "61-90 Days Past Due", "Over 90 Days Past Due">>

\* The five labels in the order groupby (sort=True) lists its keys: by string
\* comparison, digits before letters.
GroupKeyOrder ==
    <<"1-30 Days Past Due", "31-60 Days Past Due", "61-90 Days Past Due",
      "On Time", "Over 90 Days Past Due">>

Round2Truncating(x) == 10 * (x \div 10)

\* round(2) of an amount in thousandths, ties to the even hundredth
Round2(x) ==
    LET q == x \div 10
        r == x % 10
    IN  IF r < 5 THEN 10 * q
        ELSE IF r > 5 THEN 10 * (q + 1)
        ELSE IF q % 2 = 0 THEN 10 * q ELSE 10 * (q + 1)

AgingRow(cat, total, count) ==
    [c \in {"Aging Category", "Total Amount", "Invoice Count"} |->
        CASE c = "Aging Category" -> cat
          [] c = "Total Amount" -> total
          [] c = "Invoice Count" -> count]

\* collectible_ar.groupby('Aging Category').agg({'Amount': ['sum', 'count']})
\* .round(2), columns renamed, reset_index(): one row per label that occurs,
\* from the k-th group key on
RECURSIVE GroupByAging(_, _)
GroupByAging(frame, k) ==
    IF k > Len(GroupKeyOrder) THEN <<>>
    ELSE LET group == WhereEq(frame, "Aging Category", GroupKeyOrder[k])
             rest == GroupByAging(frame, k + 1)
         IN  IF group = <<>> THEN rest
             ELSE <<AgingRow(GroupKeyOrder[k], Round2(SumAmount(group)),
                             CountAmount(group))>> \o rest

\* Series.map({cat: i for i, cat in enumerate(aging_order)}) on one label
OrderOf(cat) == CHOOSE i \in 1..Len(aging_order) : aging_order[i] = cat

\* sort_values('Order'): insertion of one row into a table sorted by Order
RECURSIVE InsertByOrder(_, _)
InsertByOrder(row, table) ==
    IF table = <<>> THEN <<row>>
    ELSE IF OrderOf(row["Aging Category"]) < OrderOf(Head(table)["Aging Category"])
    THEN <<row>> \o table
    ELSE <<Head(table)>> \o InsertByOrder(row, Tail(table))

SortByOrderDropped(table) == table

RECURSIVE SortByOrder(_)
SortByOrder(table) ==
    IF table = <<>> THEN <<>>
    ELSE InsertByOrder(Head(table), SortByOrder(Tail(table)))

\* collectible_ar['Aging Category'] = collectible_ar['Days Past Due'].apply(categorize_aging)
WithAgingCategory(frame) ==
    [i \in DOMAIN frame |->
        SetCol(frame[i], "Aging Category", categorize_aging(frame[i]["Days Past Due"]))]

\* self.aging_summary from the annotated frame collectible_ar
AgingSummary(frame) == SortByOrder(GroupByAging(frame, 1))

-----------------------------------------------------------------------------
(* Configuration (ARAnalyzer.__init__) and what a caller may assign before  *)
(* a run.                                                                   *)

DefaultWireFeeThreshold == 100000      \* 100, in thousandths

DefaultWithholdingDocs == <<"3148">>

DefaultExclusionNotes ==
    [wire_fee |-> "Remaining wire fees - excluded from AR",
     india_withholding |-> "India Withholding Tax - excluded from AR"]

LowerWireFeeThreshold == 50000         \* 50, in thousandths

ThresholdOptions == {DefaultWireFeeThreshold, LowerWireFeeThreshold}
WithholdingDocOptions == {DefaultWithholdingDocs, <<"3148", "1001">>}
ExclusionNoteOptions ==
    {DefaultExclusionNotes,
     [wire_fee |-> "Bank charges - excluded from AR", india_withholding |-> ""]}

-----------------------------------------------------------------------------
(* Input slices: the datasets load_data may read.                           *)

RECURSIVE SeqsUpTo(_, _)
SeqsUpTo(S, n) ==
    IF n = 0 THEN {<<>>}
    ELSE LET shorter == SeqsUpTo(S, n - 1)
         IN  shorter \cup {Append(q, x) : q \in {t \in shorter : Len(t) = n - 1}, x \in S}

\* Classification slice: every kind of document number, amounts around the
\* default threshold (missing, negative, zero, at, just above), paid or unpaid.
ClassifyDocs == {Doc("str", 3148), Doc("int", 1001), Doc("float", 3148)}
ClassifyAmounts == {NaN, Some(-5000), Some(0), Some(100000), Some(100010)}
ClassifyRows ==
    {RawRow(d, a, Some(0), p) : d \in ClassifyDocs, a \in ClassifyAmounts,
                                p \in {NaT, Some(0)}}
ClassifyDatasets == SeqsUpTo(ClassifyRows, MaxRecords)
ClassifyTodays == {1}

\* Date slice: every combination of due date, payment date and evaluation date.
DateTicks == 0..(MaxDay * TicksPerDay + TicksPerDay - 1)
DateCells == {NaT} \cup {Some(t) : t \in DateTicks}
DateRows == {RawRow(Doc("int", 1001), Some(200000), d, p) : d \in DateCells, p \in DateCells}
DateDatasets == SeqsUpTo(DateRows, MaxDateRecords)
DateTodays == 0..MaxDay

\* Aging slice, evaluated on day MaxDaysPastDue: unpaid rows on both sides of
\* every band boundary with amounts that carry thousandths, a paid row, a row
\* of each exclusion rule and a row with a missing amount; and the band slice,
\* one row for every number of days past due in 0..MaxDaysPastDue.
DueDaysAgo(n) == Some((MaxDaysPastDue - n) * TicksPerDay)
BoundaryDays == {0, 30, 31, 60, 90, 91}
AgingRows ==
    {RawRow(Doc("int", 1001), Some(a), DueDaysAgo(n), NaT) :
        a \in {150004, 200000}, n \in BoundaryDays}
    \cup {RawRow(Doc("int", 1001), Some(150004), DueDaysAgo(45), Some(0)),
          RawRow(Doc("int", 1001), Some(50000), DueDaysAgo(45), NaT),
          RawRow(Doc("int", 3148), Some(150004), DueDaysAgo(45), NaT),
          RawRow(Doc("int", 1001), NaN, DueDaysAgo(45), NaT)}
BandRows ==
    {RawRow(Doc("int", 1001), Some(200000), Some(t), NaT) :
        t \in 0..(MaxDaysPastDue * TicksPerDay + TicksPerDay - 1)}
AgingDatasets == SeqsUpTo(AgingRows, MaxRecords) \cup SeqsUpTo(BandRows, MaxBandRecords)
AgingTodays == {MaxDaysPastDue}

-----------------------------------------------------------------------------
(* The state after ARAnalyzer(input_file, output_file). *)

InitOn(Todays) ==
    /\ pc = "init"
    /\ wire_fee_threshold = DefaultWireFeeThreshold
    /\ india_withholding_docs = DefaultWithholdingDocs
    /\ exclusion_notes = DefaultExclusionNotes
    /\ df = <<>>
    /\ today \in Todays
    /\ metrics = <<>>
    /\ collectible_ar = <<>>
    /\ aging_summary = <<>>
    /\ error = ""

-----------------------------------------------------------------------------
(* Attribute assignments a caller makes before the run (example_usage.py).  *)

SetWireFeeThreshold ==
    /\ pc = "init"
    /\ \E t \in ThresholdOptions : wire_fee_threshold' = t
    /\ UNCHANGED <<pc, india_withholding_docs, exclusion_notes, df, today, metrics,
                   collectible_ar, aging_summary, error>>

SetWithholdingDocs ==
    /\ pc = "init"
    /\ \E d \in WithholdingDocOptions : india_withholding_docs' = d
    /\ UNCHANGED <<pc, wire_fee_threshold, exclusion_notes, df, today, metrics,
                   collectible_ar, aging_summary, error>>

SetExclusionNotes ==
    /\ pc = "init"
    /\ \E n \in ExclusionNoteOptions : exclusion_notes' = n
    /\ UNCHANGED <<pc, wire_fee_threshold, india_withholding_docs, df, today, metrics,
                   collectible_ar, aging_summary, error>>

-----------------------------------------------------------------------------
(* The steps of run_analysis.                                               *)

\* load_data: the frame read from the input file, or False (run_analysis
\* returns False) when reading raises.
load_data(Datasets) ==
    /\ pc = "init"
    /\ \/ \E d \in Datasets : df' = d /\ pc' = "loaded"
       \/ df' = df /\ pc' = "load_failed"
    /\ UNCHANGED <<wire_fee_threshold, india_withholding_docs, exclusion_notes, today,
                   metrics, collectible_ar, aging_summary, error>>

\* calculate_days_past_due. On a frame without rows DataFrame.apply returns a
\* frame, not a Series, and assigning it to one column either raises
\* ValueError or creates the (empty) column, depending on the pandas version.
calculate_days_past_due ==
    /\ pc = "loaded"
    /\ \/ /\ df # <<>>
          /\ df' = [i \in DOMAIN df |->
                       SetCol(df[i], "Days Past Due", days_past_due_calc(df[i], today))]
          /\ pc' = "days"
          /\ error' = error
       \/ /\ df = <<>>
          /\ df' = df
          /\ pc' = "days"
          /\ error' = error
       \/ /\ df = <<>>
          /\ df' = df
          /\ pc' = "raised"
          /\ error' = "ValueError"
    /\ UNCHANGED <<wire_fee_threshold, india_withholding_docs, exclusion_notes, today,
                   metrics, collectible_ar, aging_summary>>

\* categorize_invoices: the two default columns, then the loop over the rows
categorize_invoices ==
    /\ pc = "days"
    /\ df' = [i \in DOMAIN df |->
                 CategorizeRow(SetCol(SetCol(df[i], "Category", "Unknown"),
                                      "Exclusion Reason", ""),
                               wire_fee_threshold, india_withholding_docs,
                               exclusion_notes)]
    /\ pc' = "categorized"
    /\ UNCHANGED <<wire_fee_threshold, india_withholding_docs, exclusion_notes, today,
                   metrics, collectible_ar, aging_summary, error>>

\* The dict assigned to self.metrics; the division of collection_rate is kept
\* as the fraction num / den.
Metrics(paid_invoices, collectible, excluded) ==
    [total_payments |-> SumAmount(paid_invoices),
     collectible_ar |-> SumAmount(collectible),
     excluded_total |-> SumAmount(excluded),
     wire_fees |-> SumAmount(WhereContains(excluded, "Exclusion Reason", "wire fees")),
     india_withholding |-> SumAmount(WhereContains(excluded, "Exclusion Reason", "India")),
     paid_count |-> Len(paid_invoices),
     collectible_count |-> Len(collectible),
     excluded_count |-> Len(excluded),
     collection_rate |-> [num |-> Len(paid_invoices) * 100,
                          den |-> Len(paid_invoices) + Len(collectible)],
     oldest_days |-> IF Len(collectible) > 0 THEN MaxDays(collectible) ELSE Some(0)]

\* calculate_ar_metrics: len(paid_invoices) / (len(paid_invoices) +
\* len(collectible_ar)) raises ZeroDivisionError when both are empty, before
\* self.metrics is assigned.
calculate_ar_metrics ==
    LET paid_invoices == WhereEq(df, "Category", "Paid")
        collectible == WhereEq(df, "Category", "Collectible AR")
        excluded == WhereEq(df, "Category", "Excluded")
    IN  /\ pc = "categorized"
        /\ IF Len(paid_invoices) + Len(collectible) = 0
           THEN /\ pc' = "raised"
                /\ error' = "ZeroDivisionError"
                /\ UNCHANGED <<metrics, collectible_ar, aging_summary>>
           ELSE /\ pc' = "metrics"
                /\ error' = error
                /\ metrics' = Some(Metrics(paid_invoices, collectible, excluded))
                /\ collectible_ar' = WithAgingCategory(collectible)
                /\ aging_summary' = Some(AgingSummary(WithAgingCategory(collectible)))
        /\ UNCHANGED <<wire_fee_threshold, india_withholding_docs, exclusion_notes, df,
                       today>>

\* create_excel_report and the return of run_analysis: the workbook is written
\* from self.df, self.metrics and self.aging_summary, none of which it changes.
create_excel_report ==
    /\ pc = "metrics"
    /\ pc' = "done"
    /\ UNCHANGED <<wire_fee_threshold, india_withholding_docs, exclusion_notes, df,
                   today, metrics, collectible_ar, aging_summary, error>>

-----------------------------------------------------------------------------
(* Specifications. *)

Init == InitOn(ClassifyTodays)
LoadClassify == load_data(ClassifyDatasets)
Next ==
    \/ SetWireFeeThreshold
    \/ SetWithholdingDocs
    \/ SetExclusionNotes
    \/ LoadClassify
    \/ calculate_days_past_due
    \/ categorize_invoices
    \/ calculate_ar_metrics
    \/ create_excel_report
Spec == Init /\ [][Next]_vars

InitDates == InitOn(DateTodays)
LoadDates == load_data(DateDatasets)
NextDates ==
    \/ LoadDates
    \/ calculate_days_past_due
    \/ categorize_invoices
    \/ calculate_ar_metrics
    \/ create_excel_report
SpecDates == InitDates /\ [][NextDates]_vars

InitAging == InitOn(AgingTodays)
LoadAging == load_data(AgingDatasets)
NextAging ==
    \/ LoadAging
    \/ calculate_days_past_due
    \/ categorize_invoices
    \/ calculate_ar_metrics
    \/ create_excel_report
SpecAging == InitAging /\ [][NextAging]_vars

-----------------------------------------------------------------------------
(* Properties of classification. *)

\* categorize_invoices has run over self.df
Categorized ==
    \/ pc \in {"categorized", "metrics", "done"}
    \/ pc = "raised" /\ error = "ZeroDivisionError"

\* calculate_days_past_due has created the column Days Past Due
DaysComputed == pc = "days" \/ Categorized

Unpaid(row) == ~notna(row["Payment Date"])
Withheld(row) == InList(PyStr(row["Document Number"]), india_withholding_docs)

\* C1: after categorize_invoices every record's Category is one of Paid,
\* Collectible AR and Excluded; the default 'Unknown' is left on no record.
C1_CategoryAssigned ==
    Categorized =>
        \A i \in DOMAIN df :
            /\ df[i]["Category"] \in {"Paid", "Collectible AR", "Excluded"}
            /\ df[i]["Category"] # "Unknown"

\* A dataset whose two records take the fall-through branch and an exclusion
\* branch, one of them with a missing amount, has been categorized.
C1_Witness ==
    /\ pc = "categorized"
    /\ \E i, j \in DOMAIN df :
        /\ df[i]["Category"] = "Collectible AR"
        /\ ~notna(df[i]["Amount"])
        /\ df[j]["Category"] = "Excluded"

\* C2: with the default exclusion notes, after categorize_invoices the
\* Exclusion Reason of a record is non-empty exactly when its Category is
\* Excluded, and an Excluded record carries the withholding note or the
\* wire-fee note.
C2_ReasonIffExcluded ==
    (Categorized /\ exclusion_notes = DefaultExclusionNotes) =>
        \A i \in DOMAIN df :
            /\ (df[i]["Exclusion Reason"] # "") <=> (df[i]["Category"] = "Excluded")
            /\ df[i]["Category"] = "Excluded" =>
                   df[i]["Exclusion Reason"] \in
                       {"India Withholding Tax - excluded from AR",
                        "Remaining wire fees - excluded from AR"}

\* Default notes, a Paid record whose document number is in the withholding
\* list beside an Excluded record.
C2_Witness ==
    /\ pc = "categorized"
    /\ exclusion_notes = DefaultExclusionNotes
    /\ \E i, j \in DOMAIN df :
        /\ df[i]["Category"] = "Paid" /\ Withheld(df[i])
        /\ df[j]["Category"] = "Excluded"

\* C4: a record with a payment date is Paid with an empty exclusion reason,
\* whatever its document number and amount.
C4_PaymentWins ==
    Categorized =>
        \A i \in DOMAIN df :
            notna(df[i]["Payment Date"]) =>
                /\ df[i]["Category"] = "Paid"
                /\ df[i]["Exclusion Reason"] = ""

\* A paid record with a withholding document number and an amount at or
\* below the threshold has been categorized.
C4_Witness ==
    /\ pc = "categorized"
    /\ \E i \in DOMAIN df :
        /\ notna(df[i]["Payment Date"])
        /\ Withheld(df[i])
        /\ PyLe(df[i]["Amount"], Some(wire_fee_threshold))
        /\ df[i]["Category"] = "Paid"

\* C5: an unpaid record whose document number, as a string, is in the
\* withholding list is Excluded with the withholding note, for every amount,
\* and never carries the wire-fee note.
C5_WithholdingBeforeWireFee ==
    Categorized =>
        \A i \in DOMAIN df :
            (Unpaid(df[i]) /\ Withheld(df[i])) =>
                /\ df[i]["Category"] = "Excluded"
                /\ df[i]["Exclusion Reason"] = exclusion_notes.india_withholding
                /\ df[i]["Exclusion Reason"] # exclusion_notes.wire_fee

\* An unpaid withholding record with an amount at or below the threshold has
\* been categorized.
C5_Witness ==
    /\ pc = "categorized"
    /\ \E i \in DOMAIN df :
        /\ Unpaid(df[i])
        /\ Withheld(df[i])
        /\ PyLe(df[i]["Amount"], Some(wire_fee_threshold))
        /\ df[i]["Category"] = "Excluded"

\* C6: an unpaid record with an amount, whose document number is not in the
\* withholding list, is Excluded with the wire-fee note when its amount is at
\* most wire_fee_threshold and Collectible AR with no note otherwise.
C6_WireFeeThreshold ==
    Categorized =>
        \A i \in DOMAIN df :
            (Unpaid(df[i]) /\ ~Withheld(df[i]) /\ notna(df[i]["Amount"])) =>
                IF df[i]["Amount"][1] <= wire_fee_threshold
                THEN /\ df[i]["Category"] = "Excluded"
                     /\ df[i]["Exclusion Reason"] = exclusion_notes.wire_fee
                ELSE /\ df[i]["Category"] = "Collectible AR"
                     /\ df[i]["Exclusion Reason"] = ""

\* An unpaid record at the threshold beside one just above it, neither in
\* the withholding list, have been categorized.
C6_Witness ==
    /\ pc = "categorized"
    /\ \E i, j \in DOMAIN df :
        /\ Unpaid(df[i]) /\ ~Withheld(df[i])
        /\ df[i]["Amount"] = Some(wire_fee_threshold)
        /\ df[i]["Category"] = "Excluded"
        /\ Unpaid(df[j]) /\ ~Withheld(df[j])
        /\ PyGt(df[j]["Amount"], Some(wire_fee_threshold))
        /\ df[j]["Category"] = "Collectible AR"

-----------------------------------------------------------------------------
(* Properties of days past due. *)

\* C3: after calculate_days_past_due every record's Days Past Due is a
\* non-negative integer, for every combination of due date, payment date
\* (present or missing) and evaluation date.
C3_DaysPastDueNonNegative ==
    DaysComputed =>
        \A i \in DOMAIN df :
            /\ notna(df[i]["Days Past Due"])
            /\ df[i]["Days Past Due"][1] \in Nat

\* A record paid with its due date missing, whose day count goes through
\* NaT, has had its days past due computed.
C3_Witness ==
    /\ pc = "days"
    /\ \E i \in DOMAIN df :
        /\ notna(df[i]["Payment Date"])
        /\ ~notna(df[i]["Due Date"])
        /\ df[i]["Days Past Due"] = Some(0)

-----------------------------------------------------------------------------
(* Properties of the metrics. *)

\* calculate_ar_metrics has been called on the categorized frame
MetricsCalled ==
    \/ pc \in {"metrics", "done"}
    \/ pc = "raised" /\ error = "ZeroDivisionError"

NoPaidNoCollectible ==
    \A i \in DOMAIN df : df[i]["Category"] \notin {"Paid", "Collectible AR"}

\* C7: when the classified dataset has no Paid and no Collectible AR record,
\* calculate_ar_metrics completes and collection_rate is 0. Stated for the
\* datasets that have records, all of them Excluded; the dataset without
\* records is C8.
C7_CollectionRateZero ==
    (MetricsCalled /\ NoPaidNoCollectible /\ df # <<>>) =>
        /\ pc \in {"metrics", "done"}
        /\ notna(metrics)
        /\ metrics[1].collection_rate.num = 0

\* C8: on a dataset of zero records classification and aggregation do not
\* raise: calculate_ar_metrics completes with every total and count zero,
\* oldest_days 0 and an empty aging table.
C8_EmptyDatasetReport ==
    (MetricsCalled /\ df = <<>>) =>
        /\ pc \in {"metrics", "done"}
        /\ error = ""
        /\ notna(metrics)
        /\ metrics[1].total_payments = 0
        /\ metrics[1].collectible_ar = 0
        /\ metrics[1].excluded_total = 0
        /\ metrics[1].wire_fees = 0
        /\ metrics[1].india_withholding = 0
        /\ metrics[1].paid_count = 0
        /\ metrics[1].collectible_count = 0
        /\ metrics[1].excluded_count = 0
        /\ metrics[1].oldest_days = Some(0)
        /\ aging_summary = Some(<<>>)

-----------------------------------------------------------------------------
(* Properties of the aging table. *)

\* The band of a number of days past due, by its range
BandOfRange(d) ==
    CASE d = 0 -> "On Time"
      [] d \in 1..30 -> "1-30 Days Past Due"
      [] d \in 31..60 -> "31-60 Days Past Due"
      [] d \in 61..90 -> "61-90 Days Past Due"
      [] d > 90 -> "Over 90 Days Past Due"

\* C9: the aging band of every Collectible AR record is On Time for 0 days
\* past due, 1-30 for 1..30, 31-60 for 31..60, 61-90 for 61..90 and Over 90
\* above 90: one band for every non-negative value.
C9_AgingBands ==
    pc \in {"metrics", "done"} =>
        \A i \in DOMAIN collectible_ar :
            LET d == collectible_ar[i]["Days Past Due"][1]
                band == collectible_ar[i]["Aging Category"]
            IN  /\ d >= 0
                /\ band = BandOfRange(d)
                /\ d = 30 => band = "1-30 Days Past Due"
                /\ d = 31 => band = "31-60 Days Past Due"
                /\ d = 90 => band = "61-90 Days Past Due"
                /\ d = 91 => band = "Over 90 Days Past Due"

\* Two Collectible AR records, 30 and 31 days past due, have been given
\* their bands.
C9_Witness ==
    /\ pc = "metrics"
    /\ \E i, j \in DOMAIN collectible_ar :
        /\ collectible_ar[i]["Days Past Due"] = Some(30)
        /\ collectible_ar[i]["Aging Category"] = "1-30 Days Past Due"
        /\ collectible_ar[j]["Days Past Due"] = Some(31)
        /\ collectible_ar[j]["Aging Category"] = "31-60 Days Past Due"

RECURSIVE SumColumn(_, _)
SumColumn(table, col) ==
    IF table = <<>> THEN 0 ELSE Head(table)[col] + SumColumn(Tail(table), col)

Abs(x) == IF x < 0 THEN -x ELSE x

\* The Collectible AR records of self.df that fall in a band and have an amount
BandMembers(band) ==
    {i \in DOMAIN df :
        /\ df[i]["Category"] = "Collectible AR"
        /\ BandOfRange(df[i]["Days Past Due"][1]) = band
        /\ notna(df[i]["Amount"])}

RECURSIVE SumOfAmounts(_)
SumOfAmounts(I) ==
    IF I = {} THEN 0
    ELSE LET i == CHOOSE x \in I : TRUE
         IN  df[i]["Amount"][1] + SumOfAmounts(I \ {i})

\* C10 as stated: the Total Amount column of the aging table adds up to
\* metrics['collectible_ar'] and the Invoice Count column to
\* metrics['collectible_count'].
C10_AgingSumsExact ==
    pc \in {"metrics", "done"} =>
        /\ SumColumn(aging_summary[1], "Total Amount") = metrics[1].collectible_ar
        /\ SumColumn(aging_summary[1], "Invoice Count") = metrics[1].collectible_count

\* C10 as amended: every row of the aging table holds, for its band, the
\* sum of the amounts of the Collectible AR records of that band rounded to
\* two decimals (within half a hundredth of the sum, so the column is within
\* half a hundredth per row of metrics['collectible_ar']) and the number of
\* those records that have an amount; the counts add up to the Collectible
\* AR records that have an amount, which is metrics['collectible_count'] when
\* none of them lacks one. Paid and Excluded records are in no band.
C10_AgingSumsRounded ==
    pc \in {"metrics", "done"} =>
        LET table == aging_summary[1]
            withAmount == {i \in DOMAIN df : /\ df[i]["Category"] = "Collectible AR"
                                             /\ notna(df[i]["Amount"])}
            noAmount == {i \in DOMAIN df : /\ df[i]["Category"] = "Collectible AR"
                                           /\ ~notna(df[i]["Amount"])}
        IN  /\ \A k \in DOMAIN table :
                LET members == BandMembers(table[k]["Aging Category"])
                IN  /\ table[k]["Total Amount"] % 10 = 0
                    /\ Abs(table[k]["Total Amount"] - SumOfAmounts(members)) <= 5
                    /\ table[k]["Invoice Count"] = Cardinality(members)
            /\ Abs(SumColumn(table, "Total Amount") - metrics[1].collectible_ar)
                   <= 5 * Len(table)
            /\ SumColumn(table, "Invoice Count") = Cardinality(withAmount)
            /\ noAmount = {} =>
                   SumColumn(table, "Invoice Count") = metrics[1].collectible_count
            /\ \A i \in withAmount :
                   \E k \in DOMAIN table :
                       table[k]["Aging Category"] = BandOfRange(df[i]["Days Past Due"][1])

\* Two Collectible AR records of one band whose amounts carry thousandths,
\* beside nothing else: the band total is rounded.
C10_Witness ==
    /\ pc = "metrics"
    /\ Len(aging_summary[1]) = 1
    /\ aging_summary[1][1]["Invoice Count"] = 2
    /\ aging_summary[1][1]["Total Amount"] # metrics[1].collectible_ar

\* The place of a band in the canonical order of the report
CanonicalPlace(band) ==
    CASE band = "On Time" -> 1
      [] band = "1-30 Days Past Due" -> 2
      [] band = "31-60 Days Past Due" -> 3
      [] band = "61-90 Days Past Due" -> 4
      [] band = "Over 90 Days Past Due" -> 5

\* C11: the aging table lists its bands in the canonical order On Time,
\* 1-30, 31-60, 61-90, Over 90, each band at most once, and the bands listed
\* are exactly the bands of the Collectible AR records, so the listing does
\* not depend on the order of the input records.
C11_CanonicalOrder ==
    pc \in {"metrics", "done"} =>
        LET table == aging_summary[1]
        IN  /\ \A k \in DOMAIN table :
                table[k]["Aging Category"] \in
                    {"On Time", "1-30 Days Past Due", "31-60 Days Past Due",
                     "61-90 Days Past Due", "Over 90 Days Past Due"}
            /\ \A k, l \in DOMAIN table :
                k < l => CanonicalPlace(table[k]["Aging Category"])
                             < CanonicalPlace(table[l]["Aging Category"])
            /\ {table[k]["Aging Category"] : k \in DOMAIN table}
                   = {BandOfRange(df[i]["Days Past Due"][1]) :
                          i \in {j \in DOMAIN df : df[j]["Category"] = "Collectible AR"}}

\* The input lists a record 30 days past due before a record that is on
\* time: the table has On Time first, where the order of the input and the
\* alphabetical order of the labels both have 1-30 first.
C11_Witness ==
    /\ pc = "metrics"
    /\ Len(df) = 2
    /\ df[1]["Days Past Due"] = Some(30) /\ df[1]["Category"] = "Collectible AR"
    /\ df[2]["Days Past Due"] = Some(0) /\ df[2]["Category"] = "Collectible AR"
    /\ Len(aging_summary[1]) = 2
    /\ aging_summary[1][1]["Aging Category"] = "On Time"
    /\ aging_summary[1][2]["Aging Category"] = "1-30 Days Past Due"

-----------------------------------------------------------------------------
(* Missing amounts. *)

\* C12: a record whose amount is missing is classified as if its amount
\* were zero: unpaid and with a document number outside the withholding
\* list, it is Excluded with the wire-fee note (for every threshold >= 0),
\* never Collectible AR.
C12_MissingAmountIsZero ==
    (Categorized /\ wire_fee_threshold >= 0) =>
        \A i \in DOMAIN df :
            (Unpaid(df[i]) /\ ~Withheld(df[i]) /\ ~notna(df[i]["Amount"])) =>
                /\ df[i]["Category"] = "Excluded"
                /\ df[i]["Exclusion Reason"] = exclusion_notes.wire_fee
                /\ df[i]["Category"] # "Collectible AR"

-----------------------------------------------------------------------------
(* The split of the excluded total. *)

\* The sum of the amounts of the records of self.df in I (missing skipped)
SumOfPresentAmounts(I) == SumOfAmounts({i \in I : notna(df[i]["Amount"])})

\* The records excluded by the withholding rule and by the wire-fee rule
ExcludedByWithholding ==
    {i \in DOMAIN df : Unpaid(df[i]) /\ Withheld(df[i])}
ExcludedByWireFee ==
    {i \in DOMAIN df : /\ Unpaid(df[i]) /\ ~Withheld(df[i])
                       /\ df[i]["Category"] = "Excluded"}

\* C13: metrics['wire_fees'] is the sum of the amounts of the records
\* excluded by the wire-fee rule, metrics['india_withholding'] the sum of
\* those excluded by the withholding rule, and the two add up to
\* metrics['excluded_total'], for the default exclusion notes and for
\* overridden ones.
C13_ExcludedSplit ==
    pc \in {"metrics", "done"} =>
        /\ metrics[1].wire_fees = SumOfPresentAmounts(ExcludedByWireFee)
        /\ metrics[1].india_withholding = SumOfPresentAmounts(ExcludedByWithholding)
        /\ metrics[1].wire_fees + metrics[1].india_withholding
               = metrics[1].excluded_total

-----------------------------------------------------------------------------
(* The value of days past due. *)

NonNegative(x) == IF x < 0 THEN 0 ELSE x

\* C14: the days past due of a record are, when its payment date is
\* present, the whole days from its due date to its payment date, or 0 when
\* that is negative, whatever the evaluation date; when its payment date is
\* missing, the days from its due date to the evaluation date, or 0 when
\* that is negative, and 0 when the due date is missing too.
C14_DaysPastDueValue ==
    DaysComputed =>
        \A i \in DOMAIN df :
            LET due == df[i]["Due Date"]
                pay == df[i]["Payment Date"]
                days == df[i]["Days Past Due"]
            IN  /\ (notna(pay) /\ notna(due)) =>
                       days = Some(NonNegative((pay[1] - due[1]) \div TicksPerDay))
                /\ (~notna(pay) /\ notna(due)) =>
                       days = Some(NonNegative(today - (due[1] \div TicksPerDay)))
                /\ (~notna(pay) /\ ~notna(due)) => days = Some(0)

\* A record paid a day or more after its due date, evaluated on a day before
\* that due date: its days past due are those of the payment.
C14_Witness ==
    /\ pc = "days"
    /\ \E i \in DOMAIN df :
        /\ notna(df[i]["Payment Date"])
        /\ notna(df[i]["Due Date"])
        /\ today < df[i]["Due Date"][1] \div TicksPerDay
        /\ PyGt(df[i]["Days Past Due"], Some(0))

====
